---- MODULE Spec2Model ----
(***************************************************************************)
(* Model of the ECR image-scan-findings Prometheus exporter (main.go).     *)
(*                                                                         *)
(* Processes: main (configuration, registration, HTTP server), the         *)
(* background goroutine that runs snapshot() on every ticker tick, the     *)
(* ticker, the upstream DescribeImageScanFindings API and the scraper      *)
(* that reads /metrics.                                                    *)
(*                                                                         *)
(* Time is abstracted: a tick may arrive at any moment, whatever the       *)
(* interval.  The goroutine's atomic steps are the calls that touch the    *)
(* registry or the upstream: Reset, one request with the processing of its *)
(* page, one With(labels).Set(1); a scrape may fall between any two.       *)
(* main's registration, the start of the goroutine and the start of the    *)
(* listener are one step.                                                  *)
(***************************************************************************)
EXTENDS Integers, Sequences, FiniteSets, TLC

(***************************************************************************)
(* Bounds of the model.                                                    *)
(***************************************************************************)
MaxCycles == 2      \* refresh cycles started in one run
MaxPages == 2       \* requests answered by the upstream in one fetch
MaxFindings == 2    \* findings returned by the upstream in one run
MaxFindingsSmall == 1    \* the same, in the runs of SpecAnswered and SpecConfig

(***************************************************************************)
(* Input universes.                                                        *)
(***************************************************************************)
\* the value of AWS_API_INTERVAL, as a sequence of characters: unset or
\* empty, an integer that is not positive, no integer
EnvValues == { <<>>, <<"-", "5">>, <<"1", "m">> }

\* the values of the runs of SpecConfig
ConfigEnvValues == EnvValues \cup
    { <<"6", "0">>, <<"+", "7">>, <<"0", "0", "7">>, <<"0">>,
      <<"m">>, <<"-">>, <<"6", " ", "0">>, <<"6", "0", "s">> }

Digits == <<"0", "1", "2", "3", "4", "5", "6", "7", "8", "9">>

Vulns == { [name |-> "CVE-1", severity |-> "HIGH"],
           [name |-> "CVE-2", severity |-> "LOW"] }

\* the attributes of the findings, under the four keys the exporter reads
\* and one it does not; the values are pairwise different, so a value tells
\* which key it came from
PackageVersionAttr == [key |-> "package_version", value |-> "1.2"]
PackageNameAttr    == [key |-> "package_name",    value |-> "libfoo"]
Cvss2VectorAttr    == [key |-> "CVSS2_VECTOR",    value |-> "AV:N"]
Cvss2ScoreAttr     == [key |-> "CVSS2_SCORE",     value |-> "7.5"]
FixedInAttr        == [key |-> "fixed_in",        value |-> "1.3"]

\* attribute lists of a finding: none, the version alone, name and version,
\* the two scores with an attribute the exporter does not read
AttrLists == { <<>>,
               << PackageVersionAttr >>,
               << PackageNameAttr, PackageVersionAttr >>,
               << Cvss2VectorAttr, Cvss2ScoreAttr, FixedInAttr >> }

\* ecr.ImageScanFinding: Name, Severity, Attributes
Findings == { [name |-> v.name, severity |-> v.severity, attributes |-> al] :
                v \in Vulns, al \in AttrLists }

\* input.NextToken / findings.NextToken: nil, or a pointer to a token
NoToken == <<>>

\* the upstream names the page after its n-th response by the n-th token
Tokens == << "tok1", "tok2", "tok3" >>
TokenAfter(n) == << Tokens[((n - 1) % Len(Tokens)) + 1] >>

\* the pages the upstream may return when `left` findings remain
Pages(left) == { <<>> } \cup
               (IF left >= 1 THEN { <<f>> : f \in Findings } ELSE {}) \cup
               (IF left >= 2 THEN { <<f, g>> : f \in Findings, g \in Findings } ELSE {})

VARIABLES
    mainPc,         \* main(): "start", "configured", "serving", "exited"
    env,            \* os.Getenv("AWS_API_INTERVAL")
    interval,       \* main's interval
    registered,     \* prometheus.MustRegister(findings) has run
    findings,       \* the GaugeVec: label set -> value
    tickerC,        \* ticker.C, a channel of capacity 1: number of buffered ticks
    pc,             \* the goroutine: "idle", "panic", "wait", "reset", "fetch",
                    \* "publish", "fatal"
    running,        \* snapshot() calls entered and not yet returned
    cycles,         \* snapshot() calls started
    input,          \* input.NextToken of getECRImageScanFindings
    work,           \* packageVersion, packageName, CVSS2VECTOR, CVSS2SCORE
    acc,            \* findingsInfos of getECRImageScanFindings
    findingsInfos,  \* findingsInfos of snapshot
    err,            \* err of snapshot / of the goroutine's loop body
    idx,            \* records already published by the loop of snapshot
    requests,       \* history: NextToken of each request of the current fetch
    responses,      \* history: outcome of each request of the current fetch
    raw,            \* history: raw findings received by the current fetch
    budget,         \* findings the upstream may still return
    published,      \* history: sample set left by the last successful cycle
    scraped         \* the sample set returned by the last scrape

vars == << mainPc, env, interval, registered, findings, tickerC, pc, running, cycles, input,
           work, acc, findingsInfos, err, idx, requests, responses, raw, budget,
           published, scraped >>


(***************************************************************************)
(* getInterval                                                             *)
(***************************************************************************)
defaultGithubAPIIntervalSecond == 300

IsDigit(c) == \E i \in 1..Len(Digits) : Digits[i] = c

DigitVal(c) == (CHOOSE i \in 1..Len(Digits) : Digits[i] = c) - 1

RECURSIVE ParseDigits(_, _)
\* the decimal value of the digit string s, continuing from the value n
ParseDigits(s, n) ==
    IF s = <<>> THEN n ELSE ParseDigits(Tail(s), 10 * n + DigitVal(Head(s)))

\* strconv.Atoi: an optional sign followed by at least one decimal digit
Atoi(s) ==
    LET signed == s # <<>> /\ Head(s) \in {"+", "-"}
        body   == IF signed THEN Tail(s) ELSE s
    IN  IF body = <<>> \/ \E i \in 1..Len(body) : ~IsDigit(body[i])
        THEN [ok |-> FALSE, value |-> 0]
        ELSE [ok |-> TRUE,
              value |-> IF signed /\ Head(s) = "-"
                        THEN 0 - ParseDigits(body, 0) ELSE ParseDigits(body, 0)]

\* variant: the empty value is parsed like any other
getInterval_NoDefault(e) == Atoi(e)
getInterval(e) ==
    IF Len(e) = 0
    THEN [ok |-> TRUE, value |-> defaultGithubAPIIntervalSecond]
    ELSE Atoi(e)

(***************************************************************************)
(* getECRImageScanFindings: the record of one finding                      *)
(***************************************************************************)
EmptyWork == [packageVersion |-> "", packageName |-> "",
              CVSS2VECTOR |-> "", CVSS2SCORE |-> ""]

\* the switch on *attr.Key
\* variant: a default case takes the value of any other key as the score
ApplyAttr_Default(w, attr) ==
    CASE attr.key = "package_version" -> [w EXCEPT !.packageVersion = attr.value]
      [] attr.key = "package_name"    -> [w EXCEPT !.packageName = attr.value]
      [] attr.key = "CVSS2_VECTOR"    -> [w EXCEPT !.CVSS2VECTOR = attr.value]
      [] OTHER                        -> [w EXCEPT !.CVSS2SCORE = attr.value]
ApplyAttr(w, attr) ==
    CASE attr.key = "package_version" -> [w EXCEPT !.packageVersion = attr.value]
      [] attr.key = "package_name"    -> [w EXCEPT !.packageName = attr.value]
      [] attr.key = "CVSS2_VECTOR"    -> [w EXCEPT !.CVSS2VECTOR = attr.value]
      [] attr.key = "CVSS2_SCORE"     -> [w EXCEPT !.CVSS2SCORE = attr.value]
      [] OTHER                        -> w

RECURSIVE ScanAttrs(_, _)
\* for _, attr := range finding.Attributes
ScanAttrs(w, attrs) ==
    IF attrs = <<>> THEN w ELSE ScanAttrs(ApplyAttr(w, Head(attrs)), Tail(attrs))

\* results[i] = findingsInfo{...}
\* variant: each field takes the variable of its own name
MakeInfo_Unswapped(finding, w) ==
    [Name           |-> finding.name,
     Severity       |-> finding.severity,
     PackageName    |-> w.packageName,
     PackageVersion |-> w.packageVersion,
     CVSS2VECTOR    |-> w.CVSS2VECTOR,
     CVSS2SCORE     |-> w.CVSS2SCORE]
MakeInfo(finding, w) ==
    [Name           |-> finding.name,
     Severity       |-> finding.severity,
     PackageName    |-> w.packageVersion,
     PackageVersion |-> w.packageName,
     CVSS2VECTOR    |-> w.CVSS2VECTOR,
     CVSS2SCORE     |-> w.CVSS2SCORE]

RECURSIVE BuildPage(_, _)
\* for i, finding := range findings.ImageScanFindings.Findings:
\* the records of one page and the working variables after it. The four
\* variables are declared once, before the request loop: a finding starts
\* from the values the previous finding left
BuildPage(w, page) ==
    IF page = <<>> THEN [work |-> w, results |-> <<>>]
    ELSE LET w1   == ScanAttrs(w, Head(page).attributes)
             rest == BuildPage(w1, Tail(page))
         IN  [work |-> rest.work,
              results |-> <<MakeInfo(Head(page), w1)>> \o rest.results]

\* findingsInfos = append(findingsInfos, results...)
\* variant: the page's records replace the accumulated ones
AppendResults_Overwrite(infos, results) == results
AppendResults(infos, results) == infos \o results

(***************************************************************************)
(* snapshot: the labels of one record, and the GaugeVec                    *)
(***************************************************************************)
Labels(info) ==
    [name            |-> info.Name,
     severity        |-> info.Severity,
     package_version |-> info.PackageName,
     package_name    |-> info.PackageName,
     CVSS2_VECTOR    |-> info.CVSS2VECTOR,
     CVSS2_SCORE     |-> info.CVSS2SCORE]

\* findings.Reset()
\* variant: nothing is cleared
Reset_Keep(vec) == vec
Reset(vec) == << >>

\* findings.With(labels).Set(v)
\* variant: the value is added to the sample, as Add(v) would
WithSet_Add(vec, labels, v) ==
    [l \in DOMAIN vec \cup {labels} |->
        IF l = labels THEN (IF l \in DOMAIN vec THEN vec[l] + v ELSE v) ELSE vec[l]]
WithSet(vec, labels, v) ==
    [l \in DOMAIN vec \cup {labels} |-> IF l = labels THEN v ELSE vec[l]]

\* what a scrape of the registry lists: the label sets with their values
Gather(vec) == { [labels |-> l, value |-> vec[l]] : l \in DOMAIN vec }

\* the label sets of a sequence of records
LabelSets(infos) == { Labels(infos[i]) : i \in 1..Len(infos) }


(***************************************************************************)
(* Initial state: the process has been started, main has not run yet       *)
(***************************************************************************)
\* time.NewTicker makes ticker.C with room for one tick
TickerCap == 1

\* the state at process start, AWS_API_INTERVAL being one of envs and the
\* upstream having n findings to return
InitWith(envs, n) ==
    /\ mainPc = "start"
    /\ env \in envs
    /\ interval = 0
    /\ registered = FALSE
    /\ findings = << >>
    /\ tickerC = 0
    /\ pc = "idle"
    /\ running = 0
    /\ cycles = 0
    /\ input = NoToken
    /\ work = EmptyWork
    /\ acc = <<>>
    /\ findingsInfos = <<>>
    /\ err = FALSE
    /\ idx = 0
    /\ requests = <<>>
    /\ responses = <<>>
    /\ raw = <<>>
    /\ budget = n
    /\ published = {}
    /\ scraped = [served |-> FALSE, samples |-> {}]

Init == InitWith(EnvValues, MaxFindings)

(***************************************************************************)
(* main                                                                    *)
(***************************************************************************)
\* interval, err := getInterval(); if err != nil { log.Fatal(err) }
MainGetInterval ==
    /\ mainPc = "start"
    /\ LET r == getInterval(env)
       IN  IF r.ok
           THEN /\ interval' = r.value
                /\ mainPc' = "configured"
           ELSE /\ interval' = interval
                /\ mainPc' = "exited"
    /\ UNCHANGED << registered, env, findings, tickerC, pc, running, cycles, input, work, acc,
                    findingsInfos, err, idx, requests, responses, raw, budget,
                    published, scraped >>

\* where the goroutine is once it has started: time.NewTicker panics on an
\* interval that is not positive, otherwise the goroutine waits for the
\* first tick
\* variant: snapshot is called once before the first tick
GoroutineStart_Eager(iv) == "reset"
GoroutineStart(iv) == IF iv > 0 THEN "wait" ELSE "panic"

\* MustRegister, http.Handle, go func() { ticker := ... }, ListenAndServe
\* starts to serve
MainServe ==
    /\ mainPc = "configured"
    /\ mainPc' = "serving"
    /\ registered' = TRUE
    /\ pc' = GoroutineStart(interval)
    /\ UNCHANGED << env, interval, findings, tickerC, running, cycles, input, work,
                    acc, findingsInfos, err, idx, requests, responses, raw, budget,
                    published, scraped >>

\* log.Fatal(http.ListenAndServe(":8080", nil)) when the listener cannot start
MainListenFail ==
    /\ mainPc = "configured"
    /\ mainPc' = "exited"
    /\ registered' = TRUE
    /\ pc' = GoroutineStart(interval)
    /\ UNCHANGED << env, interval, findings, tickerC, running, cycles, input, work,
                    acc, findingsInfos, err, idx, requests, responses, raw, budget,
                    published, scraped >>

(***************************************************************************)
(* The ticker                                                              *)
(***************************************************************************)
\* the runtime sends a tick on ticker.C; a tick that finds the channel full
\* is dropped
Tick ==
    /\ mainPc = "serving"
    /\ pc # "panic"
    /\ cycles + tickerC < MaxCycles
    /\ tickerC' = IF tickerC < TickerCap THEN tickerC + 1 ELSE tickerC
    /\ UNCHANGED << registered, mainPc, env, interval, findings, pc, running, cycles, input,
                    work, acc, findingsInfos, err, idx, requests, responses, raw,
                    budget, published, scraped >>

(***************************************************************************)
(* The background goroutine                                                *)
(***************************************************************************)
\* time.NewTicker(time.Duration(interval) * time.Second) panics when the
\* interval is not positive: the panic of the goroutine ends the process
TickerPanic ==
    /\ mainPc = "serving"
    /\ pc = "panic"
    /\ mainPc' = "exited"
    /\ UNCHANGED << registered, env, interval, findings, tickerC, pc, running,
                    cycles, input, work, acc, findingsInfos, err, idx, requests,
                    responses, raw, budget, published, scraped >>

\* the goroutine is at `for range ticker.C`: the loop body has returned
\* variant: every tick starts snapshot without waiting for the running one
AtLoopHead_Spawned == pc \notin {"idle", "panic"}
AtLoopHead == pc = "wait"

\* for range ticker.C { err := snapshot() ...: a tick is received and
\* snapshot is entered
TickRecv ==
    /\ mainPc = "serving"
    /\ AtLoopHead
    /\ tickerC > 0
    /\ cycles < MaxCycles
    /\ tickerC' = tickerC - 1
    /\ pc' = "reset"
    /\ running' = running + 1
    /\ cycles' = cycles + 1
    /\ UNCHANGED << registered, mainPc, env, interval, findings, input, work, acc,
                    findingsInfos, err, idx, requests, responses, raw, budget,
                    published, scraped >>

\* var ( packageVersion string; ... ): the four variables are locals of
\* getECRImageScanFindings, made empty by every call
\* variant: the variables outlive the call, as package-level variables would
FreshWork_Kept(w) == w
FreshWork(w) == EmptyWork

\* input := &ecr.DescribeImageScanFindingsInput{...}: made by every call,
\* without a NextToken
FreshInput(in) == NoToken

\* snapshot: findings.Reset(), then getECRImageScanFindings is entered: its
\* session, input and working variables are made
SnapshotReset ==
    /\ mainPc = "serving"
    /\ pc = "reset"
    /\ findings' = Reset(findings)
    /\ input' = FreshInput(input)
    /\ work' = FreshWork(work)
    /\ acc' = <<>>
    /\ requests' = <<>>
    /\ responses' = <<>>
    /\ raw' = <<>>
    /\ pc' = "fetch"
    /\ UNCHANGED << registered, mainPc, env, interval, tickerC, running, cycles,
                    findingsInfos, err, idx, budget, published, scraped >>

\* the cursors the upstream may answer the n-th request of a fetch with
CursorsAt(n) == IF n < MaxPages THEN { NoToken, TokenAfter(n) } ELSE { NoToken }

\* input.SetNextToken(*findings.NextToken)
\* variant: the cursor is not set on the input
NextInput_Unset(in, cursor) == in
NextInput(in, cursor) == cursor

\* findings.NextToken == nil
\* variant: the fetch returns after its first page
IsLastPage_First(cursor) == TRUE
IsLastPage(cursor) == cursor = NoToken

\* one iteration of the request loop whose request succeeds: the page is
\* turned into records and appended; without a cursor the fetch returns the
\* records to snapshot, with one the cursor is set on the input
RequestPage ==
    /\ mainPc = "serving"
    /\ pc = "fetch"
    /\ \E page \in Pages(budget), cursor \in CursorsAt(Len(requests) + 1) :
         LET b == BuildPage(work, page)
         IN  /\ requests' = Append(requests, input)
             /\ responses' = Append(responses, [kind |-> "page", cursor |-> cursor,
                                                n |-> Len(page)])
             /\ raw' = raw \o page
             /\ budget' = budget - Len(page)
             /\ work' = b.work
             /\ acc' = AppendResults(acc, b.results)
             /\ IF IsLastPage(cursor)
                THEN /\ findingsInfos' = acc'
                     /\ err' = FALSE
                     /\ idx' = 0
                     /\ pc' = "publish"
                     /\ input' = input
                ELSE /\ input' = NextInput(input, cursor)
                     /\ UNCHANGED << findingsInfos, err, idx, pc >>
    /\ UNCHANGED << registered, mainPc, env, interval, findings, tickerC, running, cycles,
                    published, scraped >>

\* what getECRImageScanFindings returns on a request error: nil
\* variant: the records of the earlier pages are returned with the error
RecordsOnError_Partial(infos) == infos
RecordsOnError(infos) == <<>>

\* one iteration of the request loop whose request fails: the fetch returns
\* (nil, err), snapshot returns the wrapped error to the loop
RequestError ==
    /\ mainPc = "serving"
    /\ pc = "fetch"
    /\ requests' = Append(requests, input)
    /\ responses' = Append(responses, [kind |-> "error", cursor |-> NoToken, n |-> 0])
    /\ findingsInfos' = RecordsOnError(acc)
    /\ err' = TRUE
    /\ pc' = "fatal"
    /\ running' = running - 1
    /\ UNCHANGED << registered, mainPc, env, interval, findings, tickerC, cycles, input, work,
                    acc, idx, raw, budget, published, scraped >>

\* snapshot: one iteration of `for _, findingsInfo := range findingsInfos`
Publish ==
    /\ mainPc = "serving"
    /\ pc = "publish"
    /\ idx < Len(findingsInfos)
    /\ findings' = WithSet(findings, Labels(findingsInfos[idx + 1]), 1)
    /\ idx' = idx + 1
    /\ UNCHANGED << registered, mainPc, env, interval, tickerC, pc, running, cycles, input,
                    work, acc, findingsInfos, err, requests, responses, raw, budget,
                    published, scraped >>

\* snapshot: the loop is over, return nil; the goroutine waits for a tick
SnapshotReturn ==
    /\ mainPc = "serving"
    /\ pc = "publish"
    /\ idx = Len(findingsInfos)
    /\ pc' = "wait"
    /\ running' = running - 1
    /\ published' = Gather(findings)
    /\ UNCHANGED << registered, mainPc, env, interval, findings, tickerC, cycles, input, work,
                    acc, findingsInfos, err, idx, requests, responses, raw, budget,
                    scraped >>

\* log.Fatal: the message is logged and os.Exit(1) ends the process
\* variant: the error is logged and the loop goes on to the next tick
LogFatal_Continue == [mainPc |-> "serving", pc |-> "wait"]
LogFatal == [mainPc |-> "exited", pc |-> "fatal"]

\* if err != nil { log.Fatal(err) }: the process exits
Fatal ==
    /\ mainPc = "serving"
    /\ pc = "fatal"
    /\ mainPc' = LogFatal.mainPc
    /\ pc' = LogFatal.pc
    /\ UNCHANGED << registered, env, interval, findings, tickerC, running, cycles, input,
                    work, acc, findingsInfos, err, idx, requests, responses, raw,
                    budget, published, scraped >>

(***************************************************************************)
(* The read path                                                           *)
(***************************************************************************)
\* GET /metrics: promhttp.Handler() gathers the registry
Scrape ==
    /\ mainPc = "serving"
    /\ scraped' = [served |-> TRUE, samples |-> Gather(findings)]
    /\ UNCHANGED << registered, mainPc, env, interval, findings, tickerC, pc, running, cycles,
                    input, work, acc, findingsInfos, err, idx, requests, responses,
                    raw, budget, published >>

Next ==
    \/ MainGetInterval
    \/ MainServe
    \/ MainListenFail
    \/ TickerPanic
    \/ Tick
    \/ TickRecv
    \/ SnapshotReset
    \/ RequestPage
    \/ RequestError
    \/ Publish
    \/ SnapshotReturn
    \/ Fatal
    \/ Scrape

Spec == Init /\ [][Next]_vars


(***************************************************************************)
(* Vocabulary of the properties                                            *)
(***************************************************************************)
Last(seq) == seq[Len(seq)]

\* the sample set that publishes exactly the records infos
SamplesOf(infos) == { [labels |-> l, value |-> 1] : l \in LabelSets(infos) }

\* the last snapshot() call returned nil and no later call has been entered
CycleDone == pc = "wait" /\ cycles > 0

\* a refresh cycle is between its entry and its return
CycleRunning == pc \in {"reset", "fetch", "publish"}

HasKey(finding, k) ==
    \E i \in 1..Len(finding.attributes) : finding.attributes[i].key = k

NoSharedLabels(infos) ==
    \A i, j \in 1..Len(infos) : Labels(infos[i]) = Labels(infos[j]) => i = j

(***************************************************************************)
(* C1: a scrape observes either the complete sample set of the previous    *)
(* successful cycle or the complete sample set of the cycle in progress,   *)
(* never an empty or partly filled registry in between.                    *)
(***************************************************************************)
C1_ScrapeAllOldOrAllNew ==
    [][ scraped' # scraped =>
           \/ scraped'.samples = published
           \/ pc = "publish" /\ scraped'.samples = SamplesOf(findingsInfos) ]_vars

(***************************************************************************)
(* C2: when the fetch of a cycle fails, the registry holds the sample set  *)
(* it held before the cycle started.                                       *)
(***************************************************************************)
C2_FailedFetchKeepsSnapshot ==
    pc = "fatal" => Gather(findings) = published

(***************************************************************************)
(* C3: a derived field whose attribute key is absent from the finding is   *)
(* the empty string in the finding's record.                               *)
(***************************************************************************)
C3_AbsentAttributeIsEmpty ==
    \A i \in 1..Len(acc) :
        /\ ~HasKey(raw[i], "package_version") => acc[i].PackageName = ""
        /\ ~HasKey(raw[i], "package_name")    => acc[i].PackageVersion = ""
        /\ ~HasKey(raw[i], "CVSS2_VECTOR")    => acc[i].CVSS2VECTOR = ""
        /\ ~HasKey(raw[i], "CVSS2_SCORE")     => acc[i].CVSS2SCORE = ""

(***************************************************************************)
(* C4 as claimed: after a successful cycle the registry holds as many      *)
(* samples as the fetch produced records, no two records sharing a label   *)
(* set.                                                                    *)
(***************************************************************************)
C4_SampleCountIsRecordCount ==
    CycleDone => /\ Cardinality(DOMAIN findings) = Len(findingsInfos)
                 /\ NoSharedLabels(findingsInfos)

(***************************************************************************)
(* C4 as amended: after a successful cycle the samples of the registry are *)
(* exactly the distinct label sets of the cycle's records, each with value *)
(* 1; their number is the number of records exactly when no two records    *)
(* share a label set.                                                      *)
(***************************************************************************)
C4_SamplesAreDistinctLabelSets ==
    CycleDone =>
        /\ Gather(findings) = SamplesOf(findingsInfos)
        /\ Cardinality(DOMAIN findings) <= Len(findingsInfos)
        /\ Cardinality(DOMAIN findings) = Len(findingsInfos)
              <=> NoSharedLabels(findingsInfos)

\* a successful cycle whose two records share a label set
C4_Witness ==
    /\ CycleDone
    /\ Len(findingsInfos) = 2
    /\ Cardinality(DOMAIN findings) = 1

(***************************************************************************)
(* C5: a further request is issued exactly when the previous response      *)
(* carried a cursor, it carries the cursor of that response, and the fetch *)
(* returns at the first response without a cursor.                         *)
(***************************************************************************)
C5_PaginationFollowsCursor ==
    /\ \A i \in 2..Len(requests) :
          /\ responses[i - 1].kind = "page"
          /\ responses[i - 1].cursor # NoToken
          /\ requests[i] = responses[i - 1].cursor
    /\ Len(requests) = Len(responses)
    /\ Len(responses) > 0 /\ Last(responses).kind = "page" =>
          IF Last(responses).cursor # NoToken
          THEN pc = "fetch" /\ input = Last(responses).cursor
          ELSE pc # "fetch" /\ ~err /\ findingsInfos = acc

\* a fetch of two requests has returned its records
C5_Witness ==
    /\ pc = "publish"
    /\ Len(requests) = 2
    /\ requests[2] = responses[1].cursor
    /\ Last(responses).cursor = NoToken

(***************************************************************************)
(* C6: the sample of a published record carries the record's PackageName   *)
(* as label package_version and the record's PackageVersion as label       *)
(* package_name; the other four labels carry the fields of their name.     *)
(***************************************************************************)
C6_LabelsFollowRecord ==
    pc = "publish" =>
        \A i \in 1..idx :
            \E l \in DOMAIN findings :
                /\ l.name = findingsInfos[i].Name
                /\ l.severity = findingsInfos[i].Severity
                /\ l.package_version = findingsInfos[i].PackageName
                /\ l.package_name = findingsInfos[i].PackageVersion
                /\ l.CVSS2_VECTOR = findingsInfos[i].CVSS2VECTOR
                /\ l.CVSS2_SCORE = findingsInfos[i].CVSS2SCORE

(***************************************************************************)
(* C7: after a successful cycle every raw finding of every page has a      *)
(* sample with its name and severity; earlier pages are not lost.          *)
(***************************************************************************)
C7_EveryFindingHasSample ==
    CycleDone =>
        \A i \in 1..Len(raw) :
            \E l \in DOMAIN findings :
                /\ l.name = raw[i].name
                /\ l.severity = raw[i].severity
                /\ findings[l] = 1

\* two pages of one finding each have been published as two samples
C7_Witness ==
    /\ CycleDone
    /\ Len(responses) = 2
    /\ responses[1].n = 1
    /\ responses[2].n = 1
    /\ raw[1].name # raw[2].name
    /\ Cardinality(DOMAIN findings) = 2

(***************************************************************************)
(* C8: a request error aborts the fetch: it returns the error and no       *)
(* records, also none of the earlier pages, and issues no request after    *)
(* the failed one.                                                         *)
(***************************************************************************)
C8_ErrorAbortsFetch ==
    /\ \A i \in 1..(Len(responses) - 1) : responses[i].kind = "page"
    /\ Len(responses) > 0 /\ Last(responses).kind = "error" =>
          /\ pc = "fatal"
          /\ err
          /\ findingsInfos = <<>>
          /\ Len(requests) = Len(responses)

\* the second request of a fetch failed after a first page with findings
C8_Witness ==
    /\ pc = "fatal"
    /\ Len(responses) = 2
    /\ Last(responses).kind = "error"
    /\ Len(acc) > 0

(***************************************************************************)
(* C9: at most one refresh cycle is in flight; a tick that arrives while a *)
(* cycle runs starts no second cycle.                                      *)
(***************************************************************************)
C9_OneCycleInFlight ==
    /\ running \in {0, 1}
    /\ running = 1 <=> CycleRunning

\* a tick is waiting in the channel while a cycle is fetching
C9_Witness ==
    /\ tickerC = 1
    /\ running = 1
    /\ pc = "fetch"
    /\ Len(requests) > 0

(***************************************************************************)
(* C10: a fetch error never reaches the read path: after a fetch error     *)
(* scrapes are still answered.                                             *)
(***************************************************************************)
C10_ReadPathSurvivesFetchError ==
    err => mainPc = "serving"


(***************************************************************************)
(* C11 as claimed: after a fetch error no further refresh cycle is started *)
(* and no further scrape is served.                                        *)
(***************************************************************************)
C11_NothingAfterFetchError ==
    [][ err => cycles' = cycles /\ scraped' = scraped ]_vars

(***************************************************************************)
(* C11 as amended: a fetch error leaves the goroutine at log.Fatal, whose  *)
(* only step is the exit of the process; no further refresh cycle is       *)
(* started after the error, and once the process has exited no scrape is   *)
(* served and nothing else happens.  A scrape may still be served between  *)
(* the failed request and the exit.                                        *)
(***************************************************************************)
C11_FetchErrorIsFatal ==
    [][ /\ err => /\ pc = "fatal"
                  /\ cycles' = cycles
                  /\ running' = running
                  /\ findings' = findings
                  /\ mainPc' # mainPc => mainPc' = "exited"
        /\ mainPc = "exited" => vars' = vars ]_vars

\* the process has exited on the fetch error of its second cycle
C11_Witness ==
    /\ err
    /\ mainPc = "exited"
    /\ cycles = 2
    /\ published # {}

\* the runs in which the configuration is read from every value of
\* ConfigEnvValues
SpecConfig == InitWith(ConfigEnvValues, MaxFindingsSmall) /\ [][Next]_vars

\* the integer each value of ConfigEnvValues that is one stands for
IntegerValues ==
    { << <<"6", "0">>, 60 >>, << <<"+", "7">>, 7 >>, << <<"0", "0", "7">>, 7 >>,
      << <<"0">>, 0 >>, << <<"-", "5">>, 0 - 5 >> }

\* main is past the configuration and has not stopped on it
ConfigAccepted == mainPc = "configured" \/ registered

(***************************************************************************)
(* C12: the interval is 300 when AWS_API_INTERVAL is unset or empty and    *)
(* the parsed integer when it is an integer; a value that is no integer    *)
(* stops the process at startup, before the registry is registered, a      *)
(* refresh cycle runs or a scrape is served.                               *)
(***************************************************************************)
C12_IntervalFromEnvironment ==
    mainPc # "start" =>
        IF env = <<>>
        THEN interval = 300 /\ ConfigAccepted
        ELSE IF \E p \in IntegerValues : p[1] = env
        THEN ConfigAccepted /\ \A p \in IntegerValues : p[1] = env => interval = p[2]
        ELSE /\ mainPc = "exited"
             /\ ~registered
             /\ pc = "idle"
             /\ cycles = 0
             /\ requests = <<>>
             /\ ~scraped.served

\* the process has stopped on a value that is no integer
C12_Witness ==
    /\ env = <<"6", "0", "s">>
    /\ mainPc = "exited"
    /\ ~registered

\* the value of the last attribute of the finding under the key k
AttrValue(finding, k) ==
    LET at == { i \in 1..Len(finding.attributes) : finding.attributes[i].key = k }
        last == CHOOSE i \in at : \A j \in at : j <= i
    IN  finding.attributes[last].value

(***************************************************************************)
(* C13: the record of a finding holds the value of its package_version     *)
(* attribute in PackageName, of its package_name attribute in              *)
(* PackageVersion, and of its CVSS2_VECTOR and CVSS2_SCORE attributes in   *)
(* CVSS2VECTOR and CVSS2SCORE.                                             *)
(***************************************************************************)
C13_RecordFieldsFromAttributes ==
    \A i \in 1..Len(acc) :
        /\ acc[i].Name = raw[i].name
        /\ acc[i].Severity = raw[i].severity
        /\ HasKey(raw[i], "package_version") =>
              acc[i].PackageName = AttrValue(raw[i], "package_version")
        /\ HasKey(raw[i], "package_name") =>
              acc[i].PackageVersion = AttrValue(raw[i], "package_name")
        /\ HasKey(raw[i], "CVSS2_VECTOR") =>
              acc[i].CVSS2VECTOR = AttrValue(raw[i], "CVSS2_VECTOR")
        /\ HasKey(raw[i], "CVSS2_SCORE") =>
              acc[i].CVSS2SCORE = AttrValue(raw[i], "CVSS2_SCORE")

\* the records of a finding with name and version and of one with the scores
C13_Witness ==
    /\ Len(acc) = 2
    /\ Len(raw) = 2
    /\ HasKey(raw[1], "package_name")
    /\ acc[1].PackageName = "1.2"
    /\ acc[1].PackageVersion = "libfoo"
    /\ HasKey(raw[2], "CVSS2_SCORE")
    /\ acc[2].CVSS2VECTOR = "AV:N"
    /\ acc[2].CVSS2SCORE = "7.5"

\* the publishing loop of snapshot has set the sample of every record
AllPublished == pc = "publish" /\ idx = Len(findingsInfos)

(***************************************************************************)
(* C14: after a successful cycle every sample of the registry derives from *)
(* a record of that cycle; a sample of an earlier cycle whose label set is *)
(* not produced again is gone.                                             *)
(***************************************************************************)
C14_NoSampleOfEarlierCycle ==
    /\ AllPublished \/ CycleDone =>
          \A l \in DOMAIN findings :
              \E i \in 1..Len(findingsInfos) : Labels(findingsInfos[i]) = l
    /\ AllPublished =>
          \A s \in published :
              s.labels \notin LabelSets(findingsInfos) => s.labels \notin DOMAIN findings

\* the second cycle has set all its samples and the sample of the first
\* cycle, not produced again, is gone
C14_Witness ==
    /\ AllPublished
    /\ cycles = 2
    /\ findingsInfos # <<>>
    /\ \E s \in published : /\ s.labels \notin LabelSets(findingsInfos)
                            /\ s.labels \notin DOMAIN findings

\* the samples the cycle in progress has set so far
FreshSamples == IF pc = "publish"
                THEN { Labels(findingsInfos[i]) : i \in 1..idx }
                ELSE {}

\* samples of the previous snapshot still in the registry although the
\* records of the cycle in progress lack them
StaleSamples ==
    IF CycleRunning
    THEN { l \in DOMAIN findings :
             /\ [labels |-> l, value |-> 1] \in published
             /\ l \notin FreshSamples
             /\ pc = "publish" => l \notin LabelSets(findingsInfos) }
    ELSE {}

(***************************************************************************)
(* C15: the registry never holds a sample of the previous snapshot that    *)
(* the new cycle's records lack together with a sample set by the cycle in *)
(* progress.                                                               *)
(***************************************************************************)
C15_NoStaleWithFresh ==
    ~(StaleSamples # {} /\ FreshSamples # {})

\* the second cycle has set a sample and the previous snapshot held one
\* that its records lack
C15_Witness ==
    /\ pc = "publish"
    /\ cycles = 2
    /\ idx = 1
    /\ \E s \in published : s.labels \notin LabelSets(findingsInfos)
    /\ DOMAIN findings = FreshSamples


\* the upstream answers every request: there is no timeout on a request, so
\* this is an assumption on the upstream, not a property of the exporter
SpecAnswered ==
    /\ InitWith(EnvValues, MaxFindingsSmall)
    /\ [][Next]_vars
    /\ WF_vars(RequestPage \/ RequestError)

(***************************************************************************)
(* C16: a fetch ends only through a response without a cursor or a request *)
(* error, never through a count of pages: as long as every response        *)
(* carries a cursor the fetch goes on to the next request.  When the       *)
(* upstream ends its pages or fails, the fetch returns.                    *)
(***************************************************************************)
C16_FetchEndsOnlyOnSignal ==
    /\ [][ pc = "fetch" /\ pc' # "fetch" =>
              /\ Len(responses') = Len(responses) + 1
              /\ \/ Last(responses').kind = "error"
                 \/ Last(responses').cursor = NoToken ]_vars
    /\ [][ pc = "fetch" /\ Len(responses') = Len(responses) + 1
              /\ Last(responses').kind = "page"
              /\ Last(responses').cursor # NoToken => pc' = "fetch" ]_vars
    /\ (pc = "fetch") ~> (pc # "fetch")

\* the fetch is still requesting after a response with a cursor
C16_Witness ==
    /\ pc = "fetch"
    /\ Len(responses) = 1
    /\ Last(responses).cursor # NoToken


RecognizedKeys == {"package_version", "package_name", "CVSS2_VECTOR", "CVSS2_SCORE"}

\* the finding without the attributes whose key the exporter does not read
StripFinding(finding) ==
    [finding EXCEPT !.attributes = SelectSeq(finding.attributes,
                                             LAMBDA a : a.key \in RecognizedKeys)]

StripAll(fs) == [i \in 1..Len(fs) |-> StripFinding(fs[i])]

(***************************************************************************)
(* C17: attributes under other keys change no field of any record: the     *)
(* records of the findings received are the records of the same findings   *)
(* with those attributes removed.                                          *)
(***************************************************************************)
C17_UnrecognizedKeysIgnored ==
    acc = BuildPage(EmptyWork, StripAll(raw)).results

\* a record has been built from a finding with an attribute under another
\* key, and one from the finding after it
C17_Witness ==
    /\ Len(acc) = 2
    /\ HasKey(raw[1], "fixed_in")
    /\ StripAll(raw) # raw

(***************************************************************************)
(* C18: every sample in the registry has value 1, also when several       *)
(* records of a cycle share a label set.                                   *)
(***************************************************************************)
C18_SampleValueIsOne ==
    \A l \in DOMAIN findings : findings[l] = 1

\* two records with the same label set have both been set
C18_Witness ==
    /\ pc = "publish"
    /\ idx = 2
    /\ Labels(findingsInfos[1]) = Labels(findingsInfos[2])
    /\ DOMAIN findings = { Labels(findingsInfos[1]) }

(***************************************************************************)
(* C19: every cycle starts from fresh fetch state: its first request       *)
(* carries no cursor, the four working variables are empty when its fetch  *)
(* starts, and its records depend on its own findings only.                *)
(***************************************************************************)
C19_CycleStartsFresh ==
    /\ Len(requests) > 0 => requests[1] = NoToken
    /\ pc = "fetch" /\ requests = <<>> =>
          /\ input = NoToken
          /\ work = [packageVersion |-> "", packageName |-> "",
                     CVSS2VECTOR |-> "", CVSS2SCORE |-> ""]
          /\ acc = <<>>
          /\ raw = <<>>
    /\ \A i \in 1..Len(acc) :
          \A k \in RecognizedKeys :
              (\A j \in 1..i : ~HasKey(raw[j], k)) =>
                  /\ k = "package_version" => acc[i].PackageName = ""
                  /\ k = "package_name"    => acc[i].PackageVersion = ""
                  /\ k = "CVSS2_VECTOR"    => acc[i].CVSS2VECTOR = ""
                  /\ k = "CVSS2_SCORE"     => acc[i].CVSS2SCORE = ""

\* the second cycle has built a record without a version from its first
\* request, the first cycle having published a version
C19_Witness ==
    /\ cycles = 2
    /\ Len(requests) > 0
    /\ Len(acc) > 0
    /\ acc[1].PackageName = ""
    /\ \E s \in published : s.labels.package_version # ""

(***************************************************************************)
(* C20: no refresh cycle runs at startup: until the first tick is received *)
(* no request is issued and the registry is empty, and a scrape served     *)
(* before the first cycle has set a sample observes no sample.             *)
(***************************************************************************)
C20_NoCycleAtStartup ==
    /\ cycles = 0 => /\ requests = <<>>
                     /\ DOMAIN findings = {}
                     /\ running = 0
                     /\ pc \in {"idle", "panic", "wait"}
                     /\ scraped.samples = {}
    /\ cycles = 1 /\ pc \in {"reset", "fetch"} => scraped.samples = {}

\* a scrape has been served before the first tick was received
C20_Witness ==
    /\ scraped.served
    /\ cycles = 0
    /\ tickerC = 1

====
